---------------------------- MODULE Spec2Model ----------------------------
(***************************************************************************)
(* Guardian AI: the session lifecycle controller.                          *)
(*                                                                         *)
(* The model covers the durable store (sessions, emergency_contacts,       *)
(* event_log), the every-minute scheduler (checkDueSessions), the REST     *)
(* operations that touch a session (activate, clear-due, call-now,         *)
(* send-location), the Twilio callbacks (recording-complete,               *)
(* transcription), the keyword analyzer, the distress classifier and the   *)
(* escalation ladder.  Every `await` of the source is a suspension point:  *)
(* a handler runs atomically up to its next await, and the outcome of the  *)
(* awaited provider request is chosen when the handler resumes.  The       *)
(* process can stop and start again at any point: what lives in memory is  *)
(* lost, the tables stay.                                                  *)
(***************************************************************************)
EXTENDS Integers, Sequences, FiniteSets, Bags, TLC

(***************************************************************************)
(* Bounds of the model.                                                    *)
(***************************************************************************)
NumSessions == 2      \* sessions that can be activated
MaxTime == 2          \* minutes the clock runs; cron fires once a minute
MaxRequests == 2      \* HTTP requests: activate, callbacks, call-now, send-location, clear-due
MaxFailures == 2      \* check-in calls the provider fails for the scheduler
MaxTranscriptLen == 6     \* characters of the transcripts the analyzer is checked on
MaxSchedulerRequests == 3 \* HTTP requests when only the scheduler and its rivals run
MaxHandlerRequests == 3   \* HTTP requests when the scheduler is left out

(***************************************************************************)
(* Program constants.                                                      *)
(***************************************************************************)
DISTRESS_THRESHOLD == 70   \* 0.7, scores are counted in hundredths
DayLength == 2             \* minutes per calendar day (the date part of a timestamp)

SessionIds == 1..NumSessions
Null == "NULL"

(***************************************************************************)
(* Text.  A string is a sequence of one-character strings.                 *)
(***************************************************************************)
LowerLetters == {"o", "k", "s", "h", "m"}
UpperLetters == {"O", "K", "S"}

ToLowerCase(c) ==
    CASE c = "O" -> "o"
      [] c = "K" -> "k"
      [] c = "S" -> "s"
      [] OTHER -> c

\* \w of a JavaScript regular expression: [A-Za-z0-9_]
IsWordChar(c) == c \in LowerLetters \cup UpperLetters \cup {"_", "7"}

\* \s of a JavaScript regular expression
IsSpace(c) == c \in {" ", "\t"}

RECURSIVE DropLeadingSpace(_)
DropLeadingSpace(t) ==
    IF t = <<>> THEN <<>>
    ELSE IF IsSpace(Head(t)) THEN DropLeadingSpace(Tail(t))
    ELSE t

RECURSIVE CollapseSpace(_)
\* .replace(/\s+/g, ' ')
CollapseSpace(t) ==
    IF t = <<>> THEN <<>>
    ELSE IF IsSpace(Head(t)) THEN <<" ">> \o CollapseSpace(DropLeadingSpace(Tail(t)))
    ELSE <<Head(t)>> \o CollapseSpace(Tail(t))

RECURSIVE DropTrailingSpace(_)
DropTrailingSpace(t) ==
    IF t = <<>> THEN <<>>
    ELSE IF IsSpace(t[Len(t)]) THEN DropTrailingSpace(SubSeq(t, 1, Len(t) - 1))
    ELSE t

\* String.prototype.trim
Trim(t) == DropTrailingSpace(DropLeadingSpace(t))

normalizeText(text) ==
    IF text = <<>> THEN <<>>
    ELSE LET lower == [i \in 1..Len(text) |-> ToLowerCase(text[i])]
             nopunct == [i \in 1..Len(lower) |->
                            IF IsWordChar(lower[i]) \/ IsSpace(lower[i])
                            THEN lower[i] ELSE " "]
         IN Trim(CollapseSpace(nopunct))

\* the pattern occurs in t starting at position i
MatchAt(t, w, i) ==
    /\ i + Len(w) - 1 <= Len(t)
    /\ \A k \in 1..Len(w) : t[i + k - 1] = w[k]

\* \b between t[p] and t[p+1]; the ends of the text count as non-word
WordBoundary(t, p) ==
    LET before == p >= 1 /\ IsWordChar(t[p])
        after == p + 1 <= Len(t) /\ IsWordChar(t[p + 1])
    IN before # after

\* mutant: only the whole-word alternative of the pattern
containsWord_WholeWord(text, word) ==
    LET normalized == normalizeText(text)
        normalizedWord == normalizeText(word)
    IN IF normalizedWord = <<>> THEN FALSE
       ELSE \E i \in 1..Len(normalized) :
               /\ WordBoundary(normalized, i - 1)
               /\ MatchAt(normalized, normalizedWord, i)
               /\ WordBoundary(normalized, i + Len(normalizedWord) - 1)

containsWord(text, word) ==
    LET normalized == normalizeText(text)
        normalizedWord == normalizeText(word)
    IN IF normalizedWord = <<>> THEN FALSE
       ELSE \E i \in 1..Len(normalized) :
               \/ /\ WordBoundary(normalized, i - 1)
                  /\ MatchAt(normalized, normalizedWord, i)
                  /\ WordBoundary(normalized, i + Len(normalizedWord) - 1)
               \/ MatchAt(normalized, normalizedWord, i)

\* mutant: the safe word is looked for first
analyzeResponse_SafeFirst(transcription, safeWord, escalationWord) ==
    LET normalized == normalizeText(transcription)
    IN IF containsWord(normalized, safeWord) THEN "safe"
       ELSE IF containsWord(normalized, escalationWord) THEN "escalate"
       ELSE "unknown"

analyzeResponse(transcription, safeWord, escalationWord) ==
    LET normalized == normalizeText(transcription)
    IN IF containsWord(normalized, escalationWord) THEN "escalate"
       ELSE IF containsWord(normalized, safeWord) THEN "safe"
       ELSE "unknown"

(***************************************************************************)
(* The distress classifier.  A reply is what the model API does for one    *)
(* request: it fails, answers without content, answers with text that is   *)
(* not JSON, or answers with a score (in hundredths).                      *)
(***************************************************************************)
Scores == {69, 70, 71}

ClassifierReplies ==
    [kind : {"api_error", "no_content", "unparsable"}, score : {0}]
      \cup [kind : {"score"}, score : Scores]

\* for empty input classifyDistressIntent returns before any request is made
NoReply == [kind |-> "no_content", score |-> 0]

Verdict(isDistressed, score, reason) ==
    [isDistressed |-> isDistressed, score |-> score, reason |-> reason]

\* mutant: the threshold is exclusive
classifyDistressIntent_Exclusive(transcription, reply) ==
    IF transcription = <<>> \/ Trim(transcription) = <<>>
    THEN Verdict(FALSE, 0, "Empty response")
    ELSE CASE reply.kind = "no_content" -> Verdict(FALSE, 0, "No response from model")
           [] reply.kind = "score" ->
                Verdict(reply.score > DISTRESS_THRESHOLD, reply.score, "model")
           [] OTHER -> Verdict(FALSE, 0, "API error")

\* mutant: an API failure errs on the side of caution
classifyDistressIntent_FailClosed(transcription, reply) ==
    IF transcription = <<>> \/ Trim(transcription) = <<>>
    THEN Verdict(FALSE, 0, "Empty response")
    ELSE CASE reply.kind = "no_content" -> Verdict(FALSE, 0, "No response from model")
           [] reply.kind = "score" ->
                Verdict(reply.score >= DISTRESS_THRESHOLD, reply.score, "model")
           [] OTHER -> Verdict(TRUE, 100, "API error")

classifyDistressIntent(transcription, reply) ==
    IF transcription = <<>> \/ Trim(transcription) = <<>>
    THEN Verdict(FALSE, 0, "Empty response")
    ELSE CASE reply.kind = "no_content" -> Verdict(FALSE, 0, "No response from model")
           [] reply.kind = "score" ->
                Verdict(reply.score >= DISTRESS_THRESHOLD, reply.score, "model")
           [] OTHER -> Verdict(FALSE, 0, "API error")

(***************************************************************************)
(* Requests the environment can make.                                      *)
(***************************************************************************)
SafeWord == <<"o", "k">>
EscalationWord == <<"s", "o", "s">>

\* spoken responses: nothing, the safe word, both words, neither word
Transcripts ==
    { <<>>,
      <<"O", "K", "!">>,
      <<"s", "o", "s", ",", " ", "o", "k">>,
      <<"h", "m">> }

ContactLists ==
    { <<>>,
      <<[phone |-> "c1", isPrimary |-> FALSE], [phone |-> "c2", isPrimary |-> TRUE]>> }

ActivateRequests ==
    [userPhone : {"u"}, safeWord : {SafeWord}, escalationWord : {EscalationWord},
     scheduledAt : 0..MaxTime, location : {Null, "L0"}, contacts : ContactLists]

Locations == {"", "L1"}

(***************************************************************************)
(* State.                                                                  *)
(***************************************************************************)
VARIABLES
    now,                 \* the wall clock
    sessions,            \* table sessions: id -> row
    emergency_contacts,  \* table emergency_contacts: session id -> rows in rowid order
    event_log,           \* table event_log: session id -> events in insertion order
    isRunning,           \* the scheduler's overlap guard
    sched,               \* the running tick: its due list from the session awaiting the provider on
    tasks,               \* bag of HTTP handlers suspended at an await
    outbox,              \* per session, the requests made to the provider and the classifier
    requests             \* HTTP requests so far

vars == <<now, sessions, emergency_contacts, event_log, isRunning, sched, tasks,
          outbox, requests>>

Init ==
    /\ now = 0
    /\ sessions = <<>>
    /\ emergency_contacts = [id \in SessionIds |-> <<>>]
    /\ event_log = [id \in SessionIds |-> <<>>]
    /\ isRunning = FALSE
    /\ sched = <<>>
    /\ tasks = EmptyBag
    /\ outbox = [id \in SessionIds |-> <<>>]
    /\ requests = 0

(***************************************************************************)
(* The store (db/index.js).  The helpers take and return tables.           *)
(***************************************************************************)
createSession(tbl, id, req, scheduledAt) ==
    [i \in DOMAIN tbl \cup {id} |->
        IF i = id
        THEN [user_phone |-> req.userPhone, safe_word |-> req.safeWord,
              escalation_word |-> req.escalationWord, scheduled_at |-> scheduledAt,
              location |-> req.location, status |-> "pending"]
        ELSE tbl[i]]

addEmergencyContacts(tbl, id, contacts) ==
    [tbl EXCEPT ![id] =
        [i \in 1..Len(contacts) |->
            [phone_number |-> contacts[i].phone,
             is_primary |-> IF contacts[i].isPrimary THEN 1 ELSE 0,
             display_order |-> i - 1]]]

getSession(tbl, id) == IF id \in DOMAIN tbl THEN tbl[id] ELSE Null

\* getSession found a row
Found(tbl, id) == id \in DOMAIN tbl

updateSessionStatus(tbl, id, status) ==
    IF id \in DOMAIN tbl THEN [tbl EXCEPT ![id].status = status] ELSE tbl

updateSessionLocation(tbl, id, location) ==
    IF id \in DOMAIN tbl THEN [tbl EXCEPT ![id].location = location] ELSE tbl

\* mutant: the newest event is kept first
logEvent_Prepend(log, id, event) == [log EXCEPT ![id] = <<event>> \o @]

logEvent(log, id, event) == [log EXCEPT ![id] = Append(@, event)]

RECURSIVE SelectSeqBy(_, _)
\* the rows of a table that satisfy a flag, in rowid order
SelectSeqBy(rows, flag) ==
    IF rows = <<>> THEN <<>>
    ELSE IF Head(rows).is_primary = flag
         THEN <<Head(rows)>> \o SelectSeqBy(Tail(rows), flag)
         ELSE SelectSeqBy(Tail(rows), flag)

\* ORDER BY is_primary DESC, display_order
getEmergencyContacts(tbl, id) == SelectSeqBy(tbl[id], 1) \o SelectSeqBy(tbl[id], 0)

\* mutant: the flagged row inserted last
getPrimaryContact_LastFlagged(tbl, id) ==
    IF SelectSeqBy(tbl[id], 1) # <<>>
    THEN SelectSeqBy(tbl[id], 1)[Len(SelectSeqBy(tbl[id], 1))]
    ELSE IF tbl[id] # <<>> THEN Head(tbl[id])
    ELSE Null

\* WHERE is_primary = 1 LIMIT 1, else ORDER BY display_order LIMIT 1
getPrimaryContact(tbl, id) ==
    IF SelectSeqBy(tbl[id], 1) # <<>> THEN Head(SelectSeqBy(tbl[id], 1))
    ELSE IF tbl[id] # <<>> THEN Head(tbl[id])
    ELSE Null

\* a request handed to the provider (or the classifier) on behalf of a session
request(box, id, r) == [box EXCEPT ![id] = Append(@, r)]

(***************************************************************************)
(* POST /api/activate                                                      *)
(***************************************************************************)
Activate(req) ==
    LET id == Cardinality(DOMAIN sessions) + 1
        contactList == [i \in 1..Len(req.contacts) |->
                           [phone |-> req.contacts[i].phone,
                            isPrimary |-> req.contacts[i].isPrimary \/ i = 1]]
    IN /\ requests' = requests + 1
       /\ id \in SessionIds
       /\ IF req.contacts = <<>> \/ req.scheduledAt <= now
          THEN UNCHANGED <<sessions, emergency_contacts, event_log>>
          ELSE /\ sessions' = createSession(sessions, id, req, req.scheduledAt)
               /\ emergency_contacts' = addEmergencyContacts(emergency_contacts, id, contactList)
               /\ event_log' = logEvent(event_log, id, <<"session_activated">>)
       /\ UNCHANGED <<now, isRunning, sched, tasks, outbox>>

\* POST /api/activate, stopped after validation by an exception: the contact insert
\* throws ("contacts"), or addSession finds the scheduled time no longer in the
\* future ("clock").  The catch answers 500; what was written before stays.
ActivateFails(req, fault) ==
    LET id == Cardinality(DOMAIN sessions) + 1
        contactList == [i \in 1..Len(req.contacts) |->
                           [phone |-> req.contacts[i].phone,
                            isPrimary |-> req.contacts[i].isPrimary \/ i = 1]]
    IN /\ requests' = requests + 1
       /\ id \in SessionIds
       /\ req.contacts # <<>>
       /\ req.scheduledAt > now
       /\ sessions' = createSession(sessions, id, req, req.scheduledAt)
       /\ IF fault = "contacts"
          THEN UNCHANGED <<emergency_contacts, now>>
          ELSE /\ emergency_contacts' = addEmergencyContacts(emergency_contacts, id, contactList)
               /\ now' = req.scheduledAt
       /\ UNCHANGED <<event_log, isRunning, sched, tasks, outbox>>

(***************************************************************************)
(* The scheduler (scheduler/index.js).                                     *)
(***************************************************************************)
\* the pending sessions with scheduled_at <= now, ORDER BY scheduled_at ASC
DueLists(time) ==
    LET due == {id \in DOMAIN sessions :
                   sessions[id].status = "pending" /\ sessions[id].scheduled_at <= time}
    IN {q \in [1..Cardinality(due) -> due] :
           /\ \A i, j \in DOMAIN q : i < j =>
                 /\ q[i] # q[j]
                 /\ sessions[q[i]].scheduled_at <= sessions[q[j]].scheduled_at}

\* lines 38-40: log, set active, request the call
StartCheckIn(db, id) ==
    [sessions |-> updateSessionStatus(db.sessions, id, "active"),
     event_log |-> logEvent(db.event_log, id, <<"call_initiated">>),
     outbox |-> request(db.outbox, id, <<"checkin", db.sessions[id].user_phone>>)]

\* mutant: a failed initiation is logged and the session stays active
FinishCheckIn_NoRevert(db, id, ok) ==
    IF ok
    THEN [db EXCEPT !.event_log = logEvent(@, id, <<"call_outbound_sent">>)]
    ELSE [db EXCEPT !.event_log = logEvent(@, id, <<"call_failed">>)]

\* line 41 on success, lines 44-45 on failure
FinishCheckIn(db, id, ok) ==
    IF ok
    THEN [db EXCEPT !.event_log = logEvent(@, id, <<"call_outbound_sent">>)]
    ELSE [db EXCEPT !.event_log = logEvent(@, id, <<"call_failed">>),
                    !.sessions = updateSessionStatus(@, id, "pending")]

Db == [sessions |-> sessions, event_log |-> event_log, outbox |-> outbox]

SetDb(db) ==
    /\ sessions' = db.sessions
    /\ event_log' = db.event_log
    /\ outbox' = db.outbox

\* call_failed events so far: the failed initiations of the scheduler
RECURSIVE SumOver(_, _)
SumOver(f, S) ==
    IF S = {} THEN 0
    ELSE LET x == CHOOSE y \in S : TRUE IN f[x] + SumOver(f, S \ {x})

Failures ==
    SumOver([id \in SessionIds |->
                Cardinality({i \in DOMAIN event_log[id] : event_log[id][i][1] = "call_failed"})],
            SessionIds)

\* mutant: no overlap guard
Tick_NoGuard ==
    /\ now' = IF now < MaxTime THEN now + 1 ELSE now
    /\ \E due \in DueLists(now') :
          IF due = <<>>
          THEN UNCHANGED <<sessions, event_log, outbox, isRunning, sched>>
          ELSE /\ SetDb(StartCheckIn(Db, Head(due)))
               /\ isRunning' = TRUE
               /\ sched' = due
    /\ UNCHANGED <<emergency_contacts, tasks, requests>>

\* a minute passes and cron fires checkDueSessions, which runs up to its first await;
\* the clock stops at MaxTime, which stands for every later time
Tick ==
    /\ now' = IF now < MaxTime THEN now + 1 ELSE now
    /\ IF isRunning
       THEN UNCHANGED <<sessions, event_log, outbox, isRunning, sched>>
       ELSE \E due \in DueLists(now') :
               IF due = <<>>
               THEN UNCHANGED <<sessions, event_log, outbox, isRunning, sched>>
               ELSE /\ SetDb(StartCheckIn(Db, Head(due)))
                    /\ isRunning' = TRUE
                    /\ sched' = due
    /\ UNCHANGED <<emergency_contacts, tasks, requests>>

\* mutant: a failed call ends the tick
TickCallReturns_AbortOnFail(ok) ==
    /\ sched # <<>>
    /\ ok \/ Failures < MaxFailures
    /\ LET db1 == FinishCheckIn(Db, Head(sched), ok)
           rest == IF ok THEN Tail(sched) ELSE <<>>
       IN /\ SetDb(IF rest = <<>> THEN db1 ELSE StartCheckIn(db1, Head(rest)))
          /\ sched' = rest
          /\ isRunning' = (rest # <<>>)
    /\ UNCHANGED <<now, emergency_contacts, tasks, requests>>

\* initiateCheckInCall settles: the tick resumes and runs to its next await or its end
TickCallReturns(ok) ==
    /\ sched # <<>>
    /\ ok \/ Failures < MaxFailures
    /\ LET db1 == FinishCheckIn(Db, Head(sched), ok)
           rest == Tail(sched)
       IN /\ SetDb(IF rest = <<>> THEN db1 ELSE StartCheckIn(db1, Head(rest)))
          /\ sched' = rest
          /\ isRunning' = (rest # <<>>)
    /\ UNCHANGED <<now, emergency_contacts, tasks, requests>>

\* cron fires checkDueSessions and the store query of line 25 throws: the guard is
\* taken at line 22 and given back by the finally of line 49
TickQueryFails ==
    /\ ~isRunning
    /\ now' = IF now < MaxTime THEN now + 1 ELSE now
    /\ UNCHANGED <<sessions, emergency_contacts, event_log, isRunning, sched, tasks,
                   outbox, requests>>

\* mutant: the guard is not given back when the tick ends by an exception
TickWriteFails_NoFinally(fault) ==
    /\ sched # <<>>
    /\ SetDb(IF fault = "log" THEN Db
             ELSE [Db EXCEPT !.event_log = logEvent(@, Head(sched), <<"call_failed">>)])
    /\ sched' = <<>>
    /\ isRunning' = TRUE
    /\ UNCHANGED <<now, emergency_contacts, tasks, requests>>

\* initiateCheckInCall rejects and a write of the catch block throws: logEvent of
\* line 44 (fault "log") or updateSessionStatus of line 45 (fault "status").  The
\* exception leaves the loop, the finally of line 49 runs, the tick is over.
TickWriteFails(fault) ==
    /\ sched # <<>>
    /\ SetDb(IF fault = "log" THEN Db
             ELSE [Db EXCEPT !.event_log = logEvent(@, Head(sched), <<"call_failed">>)])
    /\ sched' = <<>>
    /\ isRunning' = FALSE
    /\ UNCHANGED <<now, emergency_contacts, tasks, requests>>

\* the process stops and is started again: what lives in memory is lost (the overlap
\* guard, the running tick, the suspended handlers), the tables stay, and
\* startScheduler runs checkDueSessions at once
Restart ==
    /\ tasks' = EmptyBag
    /\ \E due \in DueLists(now) :
          IF due = <<>>
          THEN /\ isRunning' = FALSE
               /\ sched' = <<>>
               /\ UNCHANGED <<sessions, event_log, outbox>>
          ELSE /\ SetDb(StartCheckIn(Db, Head(due)))
               /\ isRunning' = TRUE
               /\ sched' = due
    /\ UNCHANGED <<now, emergency_contacts, requests>>

(***************************************************************************)
(* Handlers suspended at an await.  A task is one handler's continuation:  *)
(* op is the route, pc the await it is suspended at.                       *)
(***************************************************************************)
Task(op, pc, id, text, location, i) ==
    [op |-> op, pc |-> pc, id |-> id, text |-> text, location |-> location, i |-> i]

\* what a handler step returns: the tables, and the continuation if it suspended again
Step(db, next) == [db |-> db, next |-> next]

Resume(t, step) ==
    /\ SetDb(step.db)
    /\ tasks' = (tasks (-) SetToBag({t})) (+) SetToBag(step.next)

Spawn(step) ==
    /\ SetDb(step.db)
    /\ tasks' = tasks (+) SetToBag(step.next)

Log(db, id, event) == [db EXCEPT !.event_log = logEvent(@, id, event)]
SetStatus(db, id, status) == [db EXCEPT !.sessions = updateSessionStatus(@, id, status)]
Send(db, id, r) == [db EXCEPT !.outbox = request(@, id, r)]

(***************************************************************************)
(* The escalation ladder (services/escalation.js).                         *)
(***************************************************************************)
\* lines 21-50: to the await of the location-request SMS
triggerEscalation(db, id, op) ==
    LET session == getSession(db.sessions, id)
        location == IF session.location = "" THEN Null ELSE session.location
        db1 == SetStatus(db, id, "escalated")
        db2 == Log(db1, id, <<"escalation_triggered", location>>)
        db3 == Send(db2, id, <<"sms", session.user_phone, "location_request", Null>>)
    IN IF ~Found(db.sessions, id) THEN Step(db, {})
       ELSE Step(db3, {Task(op, "ladder_location", id, <<>>, location, 0)})

\* lines 90-110: Level 2, the call to the primary contact
LadderLevel2(db, t) ==
    LET primary == getPrimaryContact(emergency_contacts, t.id)
    IN IF emergency_contacts[t.id] = <<>> THEN Step(db, {})
       ELSE Step(Send(db, t.id, <<"emergency_call", primary.phone_number,
                                  db.sessions[t.id].user_phone>>),
                 {[t EXCEPT !.pc = "ladder_call"]})

\* lines 73-88: Level 1, the SMS to contact number i of the list
LadderLevel1(db, t, i) ==
    LET contacts == getEmergencyContacts(emergency_contacts, t.id)
    IN IF i > Len(contacts) THEN LadderLevel2(db, t)
       ELSE Step(Send(db, t.id, <<"sms", contacts[i].phone_number, "alert", t.location>>),
                 {[t EXCEPT !.pc = "ladder_sms", !.i = i]})

\* mutant: a failed contact SMS ends Level 1
LadderResume_AbortOnFail(db, t, ok) ==
    LET contacts == getEmergencyContacts(emergency_contacts, t.id)
        primary == getPrimaryContact(emergency_contacts, t.id)
    IN CASE t.pc = "ladder_location" ->
              LadderLevel1(Log(db, t.id, IF ok THEN <<"location_request_sms_sent">>
                                         ELSE <<"location_request_sms_failed">>), t, 1)
         [] t.pc = "ladder_sms" ->
              IF ok
              THEN LadderLevel1(Log(db, t.id, <<"sms_sent", contacts[t.i].phone_number>>),
                                t, t.i + 1)
              ELSE LadderLevel2(Log(db, t.id, <<"sms_failed", contacts[t.i].phone_number>>), t)
         [] t.pc = "ladder_call" ->
              Step(Log(db, t.id, IF ok THEN <<"emergency_call_initiated", primary.phone_number>>
                                 ELSE <<"emergency_call_failed", primary.phone_number>>), {})

\* mutant: a failed voice alert is not caught
LadderResume_CallFailurePropagates(db, t, ok) ==
    LET contacts == getEmergencyContacts(emergency_contacts, t.id)
        primary == getPrimaryContact(emergency_contacts, t.id)
    IN CASE t.pc = "ladder_location" ->
              LadderLevel1(Log(db, t.id, IF ok THEN <<"location_request_sms_sent">>
                                         ELSE <<"location_request_sms_failed">>), t, 1)
         [] t.pc = "ladder_sms" ->
              LadderLevel1(Log(db, t.id, IF ok THEN <<"sms_sent", contacts[t.i].phone_number>>
                                         ELSE <<"sms_failed", contacts[t.i].phone_number>>),
                           t, t.i + 1)
         [] t.pc = "ladder_call" ->
              IF ok
              THEN Step(Log(db, t.id, <<"emergency_call_initiated", primary.phone_number>>), {})
              ELSE Step(db, {})

\* the awaited send settles: the ladder logs the outcome and goes on
LadderResume(db, t, ok) ==
    LET contacts == getEmergencyContacts(emergency_contacts, t.id)
        primary == getPrimaryContact(emergency_contacts, t.id)
    IN CASE t.pc = "ladder_location" ->
              LadderLevel1(Log(db, t.id, IF ok THEN <<"location_request_sms_sent">>
                                         ELSE <<"location_request_sms_failed">>), t, 1)
         [] t.pc = "ladder_sms" ->
              LadderLevel1(Log(db, t.id, IF ok THEN <<"sms_sent", contacts[t.i].phone_number>>
                                         ELSE <<"sms_failed", contacts[t.i].phone_number>>),
                           t, t.i + 1)
         [] t.pc = "ladder_call" ->
              Step(Log(db, t.id, IF ok THEN <<"emergency_call_initiated", primary.phone_number>>
                                 ELSE <<"emergency_call_failed", primary.phone_number>>), {})

LadderReturns(t, ok) ==
    /\ t \in BagToSet(tasks)
    /\ t.pc \in {"ladder_location", "ladder_sms", "ladder_call"}
    /\ Resume(t, LadderResume(Db, t, ok))
    /\ UNCHANGED <<now, emergency_contacts, isRunning, sched, requests>>

(***************************************************************************)
(* The callbacks (routes/webhooks.js).                                     *)
(***************************************************************************)
\* webhooks.js 250-255 and 322-327: the classifier's verdict
ClassifierVerdict(db, t, verdict) ==
    LET db1 == Log(db, t.id, <<"openai_classification", verdict.score, verdict.reason,
                             verdict.isDistressed>>)
    IN IF verdict.isDistressed
       THEN triggerEscalation(Log(db1, t.id, <<"ai_distress_detected", verdict.score>>),
                              t.id, t.op)
       ELSE Step(SetStatus(db1, t.id, "completed"), {})

\* mutant: only the escalation word is decided by keyword, the rest goes to the classifier
AnalyzeTranscript_ClassifiesSafe(db, id, text, op) ==
    LET session == db.sessions[id]
        result == analyzeResponse(text, session.safe_word, session.escalation_word)
    IN CASE result = "escalate" ->
              triggerEscalation(Log(db, id, <<"escalation_word_detected", text>>), id, op)
         [] OTHER ->
              IF Trim(text) = <<>>
              THEN ClassifierVerdict(db, Task(op, "classify", id, text, Null, 0),
                                     classifyDistressIntent(text, NoReply))
              ELSE Step(Send(db, id, <<"classify", text>>),
                        {Task(op, "classify", id, text, Null, 0)})

\* mutant: a safe outcome is confirmed to the subject by SMS
AnalyzeTranscript_SafeNotifies(db, id, text, op) ==
    LET session == db.sessions[id]
        result == analyzeResponse(text, session.safe_word, session.escalation_word)
    IN CASE result = "escalate" ->
              triggerEscalation(Log(db, id, <<"escalation_word_detected", text>>), id, op)
         [] result = "safe" ->
              Step(Send(SetStatus(Log(db, id, <<"safe_word_detected", text>>), id, "completed"),
                        id, <<"sms", session.user_phone, "safe_confirmation", Null>>), {})
         [] OTHER ->
              IF Trim(text) = <<>>
              THEN ClassifierVerdict(db, Task(op, "classify", id, text, Null, 0),
                                     classifyDistressIntent(text, NoReply))
              ELSE Step(Send(db, id, <<"classify", text>>),
                        {Task(op, "classify", id, text, Null, 0)})

\* webhooks.js 221-242 and 295-314: the keyword decision
AnalyzeTranscript(db, id, text, op) ==
    LET session == db.sessions[id]
        result == analyzeResponse(text, session.safe_word, session.escalation_word)
    IN CASE result = "escalate" ->
              triggerEscalation(Log(db, id, <<"escalation_word_detected", text>>), id, op)
         [] result = "safe" ->
              Step(SetStatus(Log(db, id, <<"safe_word_detected", text>>), id, "completed"), {})
         [] OTHER ->
              IF Trim(text) = <<>>
              THEN ClassifierVerdict(db, Task(op, "classify", id, text, Null, 0),
                                     classifyDistressIntent(text, NoReply))
              ELSE Step(Send(db, id, <<"classify", text>>),
                        {Task(op, "classify", id, text, Null, 0)})

\* mutant: no transcript at all closes the session
ProcessRecording_Completes(db, id, text) ==
    IF text # <<>>
    THEN AnalyzeTranscript(Log(db, id, <<"transcription_received", text>>), id, text, "recording")
    ELSE Step(SetStatus(Log(db, id, <<"no_transcription_available">>), id, "completed"), {})

\* webhooks.js 213-259: recording-complete once the transcript is settled
ProcessRecording(db, id, text) ==
    IF text # <<>>
    THEN AnalyzeTranscript(Log(db, id, <<"transcription_received", text>>), id, text, "recording")
    ELSE Step(Log(db, id, <<"no_transcription_available">>), {})

\* router.all('/recording-complete') up to its first await
RecordingComplete(id, text, hasSid, hasUrl) ==
    /\ requests' = requests + 1
    /\ IF ~Found(sessions, id)
       THEN UNCHANGED <<sessions, event_log, outbox, tasks>>
       ELSE LET db1 == IF hasSid THEN Log(Db, id, <<"recording_complete">>) ELSE Db
            IN IF text = <<>> /\ hasUrl
               THEN Spawn(Step(Send(db1, id, <<"whisper">>),
                               {Task("recording", "whisper", id, <<>>, Null, 0)}))
               ELSE Spawn(ProcessRecording(db1, id, text))
    /\ UNCHANGED <<now, emergency_contacts, isRunning, sched>>

\* transcribeAudio settles: with a text (possibly empty) or with an error
WhisperReturns(t, ok, text) ==
    /\ t \in BagToSet(tasks)
    /\ t.pc = "whisper"
    /\ IF ok
       THEN Resume(t, ProcessRecording(Log(Db, t.id, <<"whisper_transcription", text>>),
                                       t.id, text))
       ELSE Resume(t, ProcessRecording(Log(Db, t.id, <<"whisper_transcription_failed">>),
                                       t.id, <<>>))
    /\ UNCHANGED <<now, emergency_contacts, isRunning, sched, requests>>

\* router.post('/transcription') up to its first await
Transcription(id, text) ==
    /\ requests' = requests + 1
    /\ IF ~Found(sessions, id)
       THEN UNCHANGED <<sessions, event_log, outbox, tasks>>
       ELSE Spawn(AnalyzeTranscript(Log(Db, id, <<"transcription_received", text>>),
                                    id, text, "transcription"))
    /\ UNCHANGED <<now, emergency_contacts, isRunning, sched>>

\* classifyDistressIntent settles
ClassifierReturns(t, reply) ==
    /\ t \in BagToSet(tasks)
    /\ t.pc = "classify"
    /\ Resume(t, ClassifierVerdict(Db, t, classifyDistressIntent(t.text, reply)))
    /\ UNCHANGED <<now, emergency_contacts, isRunning, sched, requests>>

\* !sessionId: the request carries no session id
Missing(id) == id = 0

\* router.all('/voice'): answers with the greeting for a stored session
Voice(id) ==
    /\ requests' = requests + 1
    /\ UNCHANGED <<now, sessions, emergency_contacts, event_log, isRunning, sched, tasks,
                   outbox>>

\* the status /voice answers with
VoiceResponse(tbl, id) ==
    IF Missing(id) THEN 400
    ELSE IF ~Found(tbl, id) THEN 404
    ELSE 200

\* router.post('/call-status'): with a session id the update is logged.  event_log
\* references sessions(id) and foreign keys are on: for an id that matches no
\* session the insert throws and nothing is written.
CallStatus(id) ==
    /\ requests' = requests + 1
    /\ IF ~Missing(id) /\ Found(sessions, id)
       THEN event_log' = logEvent(event_log, id, <<"call_status">>)
       ELSE UNCHANGED event_log
    /\ UNCHANGED <<now, sessions, emergency_contacts, isRunning, sched, tasks, outbox>>

\* the status /call-status answers with: the exception reaches the framework's
\* error handler
CallStatusResponse(tbl, id) ==
    IF Missing(id) THEN 200
    ELSE IF ~Found(tbl, id) THEN 500
    ELSE 200

\* recording-complete answers 200 on every path, transcription before it does anything
RecordingCompleteResponse(tbl, id) == 200
TranscriptionResponse(tbl, id) == 200

(***************************************************************************)
(* REST operations (routes/api.js).                                        *)
(***************************************************************************)
\* the date part of a timestamp
DateOf(t) == t \div DayLength

\* POST /clear-due.  scheduled_at is an ISO-8601 text ('2026-01-02T03:04:05.000Z')
\* and datetime('now') is '2026-01-02 03:04:05': the texts compare by their date,
\* and on equal dates 'T' is greater than ' '.
ClearDue ==
    /\ requests' = requests + 1
    /\ sessions' = [id \in DOMAIN sessions |->
                       IF /\ sessions[id].status = "pending"
                          /\ DateOf(sessions[id].scheduled_at) < DateOf(now)
                       THEN [sessions[id] EXCEPT !.status = "completed"]
                       ELSE sessions[id]]
    /\ UNCHANGED <<now, emergency_contacts, event_log, isRunning, sched, tasks, outbox>>

\* POST /call-now/:sessionId up to its await
CallNow(id) ==
    /\ requests' = requests + 1
    /\ IF ~Found(sessions, id) \/ getSession(sessions, id).status # "pending"
       THEN UNCHANGED <<sessions, event_log, outbox, tasks>>
       ELSE Spawn(Step(Send(Db, id, <<"checkin", sessions[id].user_phone>>),
                       {Task("call-now", "call", id, <<>>, Null, 0)}))
    /\ UNCHANGED <<now, emergency_contacts, isRunning, sched>>

\* initiateCheckInCall settles for call-now
CallNowReturns(t, ok) ==
    /\ t \in BagToSet(tasks)
    /\ t.pc = "call"
    /\ IF ok
       THEN Resume(t, Step(Log(SetStatus(Db, t.id, "active"), t.id,
                               <<"call_outbound_sent", "call-now">>), {}))
       ELSE Resume(t, Step(Db, {}))
    /\ UNCHANGED <<now, emergency_contacts, isRunning, sched, requests>>

\* the broadcast loop of send-location, from contact number i
LocationBroadcast(db, t, i) ==
    LET contacts == getEmergencyContacts(emergency_contacts, t.id)
    IN IF i > Len(contacts) THEN Step(db, {})
       ELSE Step(Send(db, t.id, <<"sms", contacts[i].phone_number, "location_update",
                                  t.location>>),
                 {[t EXCEPT !.i = i]})

\* mutant: a location equal to the stored one is not broadcast again
SendLocation_SuppressDuplicate(id, location) ==
    /\ requests' = requests + 1
    /\ IF location = "" \/ ~Found(sessions, id)
       THEN UNCHANGED <<sessions, event_log, outbox, tasks>>
       ELSE LET db1 == [Db EXCEPT !.sessions = updateSessionLocation(@, id, location)]
                db2 == Log(db1, id, <<"location_submitted", location>>)
            IN IF sessions[id].location = location
               THEN Spawn(Step(db2, {}))
               ELSE Spawn(LocationBroadcast(db2, Task("send-location", "location_sms", id,
                                                      <<>>, location, 0), 1))
    /\ UNCHANGED <<now, emergency_contacts, isRunning, sched>>

\* POST /send-location up to its first await
SendLocation(id, location) ==
    /\ requests' = requests + 1
    /\ IF location = "" \/ ~Found(sessions, id)
       THEN UNCHANGED <<sessions, event_log, outbox, tasks>>
       ELSE LET db1 == [Db EXCEPT !.sessions = updateSessionLocation(@, id, location)]
                db2 == Log(db1, id, <<"location_submitted", location>>)
            IN Spawn(LocationBroadcast(db2, Task("send-location", "location_sms", id, <<>>,
                                                 location, 0), 1))
    /\ UNCHANGED <<now, emergency_contacts, isRunning, sched>>

\* mutant: a failed send ends the broadcast
SendLocationReturns_AbortOnFail(t, ok) ==
    /\ t \in BagToSet(tasks)
    /\ t.pc = "location_sms"
    /\ LET to == getEmergencyContacts(emergency_contacts, t.id)[t.i].phone_number
           db1 == Log(Db, t.id, IF ok THEN <<"location_update_sms_sent", to, t.location>>
                                ELSE <<"location_update_sms_failed", to>>)
       IN IF ok THEN Resume(t, LocationBroadcast(db1, t, t.i + 1))
          ELSE Resume(t, Step(db1, {}))
    /\ UNCHANGED <<now, emergency_contacts, isRunning, sched, requests>>

\* one sendSMS of the broadcast settles
SendLocationReturns(t, ok) ==
    /\ t \in BagToSet(tasks)
    /\ t.pc = "location_sms"
    /\ LET to == getEmergencyContacts(emergency_contacts, t.id)[t.i].phone_number
           db1 == Log(Db, t.id, IF ok THEN <<"location_update_sms_sent", to, t.location>>
                                ELSE <<"location_update_sms_failed", to>>)
       IN Resume(t, LocationBroadcast(db1, t, t.i + 1))
    /\ UNCHANGED <<now, emergency_contacts, isRunning, sched, requests>>

\* the session ids a request can carry: those of the table, ids of no session
\* (the ids not given out yet) and none at all (0)
RequestIds == SessionIds \cup {0}

Next ==
    \/ /\ requests < MaxRequests
       /\ \E req \in ActivateRequests : req.scheduledAt \in {now, now + 1} /\ Activate(req)
    \/ Tick
    \/ \E ok \in BOOLEAN : TickCallReturns(ok)
    \/ Restart
    \/ /\ requests < MaxRequests
       /\ \E id \in RequestIds, text \in Transcripts, hasRecording \in BOOLEAN :
             /\ text # <<>> => hasRecording
             /\ RecordingComplete(id, text, hasRecording, hasRecording)
    \/ \E t \in BagToSet(tasks), ok \in BOOLEAN, text \in Transcripts :
          WhisperReturns(t, ok, text)
    \/ /\ requests < MaxRequests
       /\ \E id \in RequestIds, text \in Transcripts : Transcription(id, text)
    \/ \E t \in BagToSet(tasks), reply \in ClassifierReplies : ClassifierReturns(t, reply)
    \/ \E t \in BagToSet(tasks), ok \in BOOLEAN : LadderReturns(t, ok)
    \/ requests < MaxRequests /\ \E id \in RequestIds : Voice(id)
    \/ requests < MaxRequests /\ \E id \in RequestIds : CallStatus(id)
    \/ requests < MaxRequests /\ ClearDue
    \/ requests < MaxRequests /\ \E id \in SessionIds : CallNow(id)
    \/ \E t \in BagToSet(tasks), ok \in BOOLEAN : CallNowReturns(t, ok)
    \/ /\ requests < MaxRequests
       /\ \E id \in SessionIds, location \in Locations : SendLocation(id, location)
    \/ \E t \in BagToSet(tasks), ok \in BOOLEAN : SendLocationReturns(t, ok)

Spec == Init /\ [][Next]_vars

\* cron keeps firing, and every check-in call the scheduler awaits returns; the
\* provider fails at most MaxFailures times, so that it eventually succeeds
LiveSpec ==
    /\ Init
    /\ [][Next]_vars
    /\ WF_vars(Tick)
    /\ WF_vars(\E ok \in BOOLEAN : TickCallReturns(ok))

\* cron keeps firing; a provider call may never return
HangSpec ==
    /\ Init
    /\ [][Next]_vars
    /\ WF_vars(Tick)

\* The life of one session without cron: its activation, which can stop at an
\* exception, the provider's callbacks delivered any number of times while the
\* session is in any status, and location submissions.
HandlerNext ==
    \/ /\ requests < MaxHandlerRequests
       /\ sessions = <<>>
       /\ \E req \in ActivateRequests : req.scheduledAt \in {now, now + 1} /\ Activate(req)
    \/ /\ requests < MaxHandlerRequests
       /\ sessions = <<>>
       /\ \E req \in ActivateRequests, fault \in {"contacts", "clock"} :
             req.scheduledAt = now + 1 /\ ActivateFails(req, fault)
    \/ /\ requests < MaxHandlerRequests
       /\ \E id \in RequestIds, text \in Transcripts : Transcription(id, text)
    \/ \E t \in BagToSet(tasks), reply \in ClassifierReplies : ClassifierReturns(t, reply)
    \/ \E t \in BagToSet(tasks), ok \in BOOLEAN : LadderReturns(t, ok)
    \/ requests < MaxHandlerRequests /\ \E id \in RequestIds : Voice(id)
    \/ requests < MaxHandlerRequests /\ \E id \in RequestIds : CallStatus(id)
    \/ /\ requests < MaxHandlerRequests
       /\ \E id \in SessionIds, location \in Locations : SendLocation(id, location)
    \/ \E t \in BagToSet(tasks), ok \in BOOLEAN : SendLocationReturns(t, ok)

HandlerSpec == Init /\ [][HandlerNext]_vars

\* the characters of the transcripts the analyzer is run on
AnalyzerLetters == {"o", "k", "s", "S", "!"}

\* every transcript of up to MaxTranscriptLen characters
AnalyzerInputs == UNION {[1..n -> AnalyzerLetters] : n \in 0..MaxTranscriptLen}

(***************************************************************************)
(* The scheduler with the store failing under it and the requests that     *)
(* write a status behind its back: clear-due and call-now.                 *)
(***************************************************************************)
SchedulerNext ==
    \/ /\ requests < MaxSchedulerRequests
       /\ \E req \in ActivateRequests : req.scheduledAt \in {now, now + 1} /\ Activate(req)
    \/ Tick
    \/ TickQueryFails
    \/ \E ok \in BOOLEAN : TickCallReturns(ok)
    \/ \E fault \in {"log", "status"} : TickWriteFails(fault)
    \/ requests < MaxSchedulerRequests /\ ClearDue
    \/ requests < MaxSchedulerRequests /\ \E id \in SessionIds : CallNow(id)
    \/ \E t \in BagToSet(tasks), ok \in BOOLEAN : CallNowReturns(t, ok)

SchedulerSpec == Init /\ [][SchedulerNext]_vars

\* the trigger words an activation accepts: any two non-empty texts, among them equal
\* words, an escalation word inside the safe word, and a word of punctuation only
AnalyzerSafeWords == {SafeWord, EscalationWord, <<"!">>}
AnalyzerEscalationWords == {EscalationWord, <<"s", "o">>}

AnalyzerRequests ==
    [userPhone : {"u"}, safeWord : AnalyzerSafeWords,
     escalationWord : AnalyzerEscalationWords,
     scheduledAt : 0..MaxTime, location : {Null}, contacts : ContactLists]

\* The analyzer on its inputs: one session, and a transcription callback with any
\* transcript.
AnalyzerNext ==
    \/ /\ requests < MaxRequests
       /\ sessions = <<>>
       /\ \E req \in AnalyzerRequests : req.scheduledAt \in {now, now + 1} /\ Activate(req)
    \/ /\ requests < MaxRequests
       /\ \E id \in SessionIds, text \in AnalyzerInputs : Transcription(id, text)

AnalyzerSpec == Init /\ [][AnalyzerNext]_vars

(***************************************************************************)
(* Vocabulary of the properties.                                           *)
(***************************************************************************)
Terminal == {"completed", "escalated"}

\* the events a step appends to a session's log
NewEvents(id) == SubSeq(event_log'[id], Len(event_log[id]) + 1, Len(event_log'[id]))

Appends(id, type) == \E i \in DOMAIN NewEvents(id) : NewEvents(id)[i][1] = type

\* the event of a given type a step appends
Appended(id, type) ==
    NewEvents(id)[CHOOSE i \in DOMAIN NewEvents(id) : NewEvents(id)[i][1] = type]

Logged(id, type) == \E i \in DOMAIN event_log[id] : event_log[id][i][1] = type

CountLogged(id, type) ==
    Cardinality({i \in DOMAIN event_log[id] : event_log[id][i][1] = type})

\* the SMS and the calls requested from the provider on behalf of a session
IsNotification(r) == r[1] \in {"sms", "emergency_call", "checkin"}
Notifications(box, id) == SelectSeq(box[id], IsNotification)
NoNotification == \A id \in SessionIds : Notifications(outbox', id) = Notifications(outbox, id)

\* the step starts the escalation ladder for the session: the location-request SMS
\* goes out and the handler is suspended on it
LadderStarts(id) ==
    /\ Len(outbox'[id]) = Len(outbox[id]) + 1
    /\ outbox'[id][Len(outbox'[id])][1] = "sms"
    /\ outbox'[id][Len(outbox'[id])][3] = "location_request"
    /\ \E t \in BagToSet(tasks') :
          t.id = id /\ t.pc = "ladder_location" /\ CopiesIn(t, tasks') > CopiesIn(t, tasks)

\* the step suspends no handler that was not suspended before
NoNewTask == \A t \in BagToSet(tasks') : CopiesIn(t, tasks') <= CopiesIn(t, tasks)

\* the step suspends no handler on the classifier
NoClassifierCall ==
    /\ \A t \in BagToSet(tasks') :
          t.pc = "classify" => CopiesIn(t, tasks') <= CopiesIn(t, tasks)
    /\ \A id \in SessionIds :
          SelectSeq(outbox'[id], LAMBDA r : r[1] = "classify")
             = SelectSeq(outbox[id], LAMBDA r : r[1] = "classify")

\* the step is one of a recording-complete or transcription handler working on the session
CallbackStep(id) ==
    \/ \E t \in BagToSet(tasks) \cup BagToSet(tasks') :
          /\ t.id = id
          /\ t.op \in {"recording", "transcription"}
          /\ CopiesIn(t, tasks') # CopiesIn(t, tasks)
    \/ /\ requests' = requests + 1
       /\ NewEvents(id) # <<>>
       /\ NewEvents(id)[1][1] \in {"recording_complete", "transcription_received",
                                   "no_transcription_available"}

(***************************************************************************)
(* C1.  At most one check-in interaction per session: under every          *)
(* interleaving of scheduler ticks, call-now and callbacks, a session's    *)
(* check-in call is successfully initiated at most once.                   *)
(***************************************************************************)
C1_AtMostOneCheckIn ==
    \A id \in DOMAIN sessions : CountLogged(id, "call_outbound_sent") <= 1

(***************************************************************************)
(* C2.  Terminal states are absorbing: once a session is completed or      *)
(* escalated no step changes its status.                                   *)
(***************************************************************************)
C2_TerminalAbsorbing ==
    [][\A id \in DOMAIN sessions :
          sessions[id].status \in Terminal => sessions'[id].status = sessions[id].status]_vars

(***************************************************************************)
(* C3.  A recording-complete or transcription callback for a session that  *)
(* is not active is a no-op: no status changes, no SMS is sent and no call *)
(* is placed.                                                              *)
(***************************************************************************)
C3_InactiveCallbackNoOp ==
    [][\A id \in DOMAIN sessions :
          (CallbackStep(id) /\ sessions[id].status # "active")
             => (sessions' = sessions /\ NoNotification)]_vars

(***************************************************************************)
(* C4.  No session goes from completed or escalated back to pending.       *)
(***************************************************************************)
C4_NoReturnToPending ==
    [][\A id \in DOMAIN sessions :
          sessions[id].status \in Terminal => sessions'[id].status # "pending"]_vars

(***************************************************************************)
(* C5.  Every status change is one of pending->active, active->pending,    *)
(* active->completed, active->escalated.                                   *)
(***************************************************************************)
LegalEdges ==
    { <<"pending", "active">>, <<"active", "pending">>,
      <<"active", "completed">>, <<"active", "escalated">> }

C5_OnlyLegalEdges ==
    [][\A id \in DOMAIN sessions :
          sessions'[id].status # sessions[id].status
             => <<sessions[id].status, sessions'[id].status>> \in LegalEdges]_vars

(***************************************************************************)
(* C6.  A recording-complete callback that yields no transcript at all.    *)
(* As claimed: the session becomes completed and a no_transcript_available *)
(* event is appended.                                                      *)
(***************************************************************************)
NoTranscriptStep(id) ==
    /\ NewEvents(id) # <<>>
    /\ NewEvents(id)[Len(NewEvents(id))][1]
          \in {"no_transcript_available", "no_transcription_available"}

C8_FailOpen ==
    [][\A id \in DOMAIN sessions :
          (Appends(id, "openai_classification")
             /\ Appended(id, "openai_classification")[3] # "model")
             => /\ Appended(id, "openai_classification")[2] = 0
                /\ Appended(id, "openai_classification")[4] = FALSE
                /\ sessions'[id].status = "completed"
                /\ ~Appends(id, "escalation_triggered")
                /\ NoNotification
                /\ NoNewTask]_vars

\* an activated session was completed after the classifier's API failed
C8_Witness ==
    \E id \in DOMAIN sessions :
       /\ Logged(id, "call_outbound_sent")
       /\ sessions[id].status = "completed"
       /\ \E i \in DOMAIN event_log[id] :
             /\ event_log[id][i][1] = "openai_classification"
             /\ event_log[id][i][3] = "API error"

(***************************************************************************)
(* C9.  The classifier is consulted only when the keyword analyzer returns *)
(* unknown: a transcript with the escalation phrase sets the session       *)
(* escalated and starts the ladder, one with only the safe phrase sets it  *)
(* completed, and neither consults the classifier.                         *)
(***************************************************************************)
ClassifierOnlyOnUnknown ==
    \A id \in DOMAIN sessions : \A i \in DOMAIN outbox[id] :
       outbox[id][i][1] = "classify"
          => /\ ~containsWord(outbox[id][i][2], sessions[id].escalation_word)
             /\ ~containsWord(outbox[id][i][2], sessions[id].safe_word)

KeywordDecides ==
    \A id \in DOMAIN sessions :
       Appends(id, "transcription_received")
          => LET text == Appended(id, "transcription_received")[2]
                 hasEscalation == containsWord(text, sessions[id].escalation_word)
                 hasSafe == containsWord(text, sessions[id].safe_word)
             IN /\ hasEscalation =>
                     /\ sessions'[id].status = "escalated"
                     /\ LadderStarts(id)
                     /\ NoClassifierCall
                /\ (hasSafe /\ ~hasEscalation) =>
                     /\ sessions'[id].status = "completed"
                     /\ outbox' = outbox
                     /\ NoNewTask

C9_KeywordsBypassClassifier == []ClassifierOnlyOnUnknown /\ [][KeywordDecides]_vars

\* an activated session was escalated on the escalation word, the log holds no
\* classification, and the ladder has run to its end
C9_Witness ==
    \E id \in DOMAIN sessions :
       /\ Logged(id, "call_outbound_sent")
       /\ Logged(id, "escalation_word_detected")
       /\ ~Logged(id, "openai_classification")
       /\ sessions[id].status = "escalated"
       /\ Logged(id, "emergency_call_initiated")

(***************************************************************************)
(* C10.  A safe outcome has no side effect beyond the status change: the   *)
(* step that detects the safe word sends no SMS, places no call, leaves    *)
(* location and contacts unchanged, sets the status completed and only     *)
(* appends to the event log.                                               *)
(***************************************************************************)
C10_SafeOutcomeFrame ==
    [][\A id \in DOMAIN sessions :
          Appends(id, "safe_word_detected")
             => /\ outbox' = outbox
                /\ emergency_contacts' = emergency_contacts
                /\ sessions' = [sessions EXCEPT ![id].status = "completed"]
                /\ SubSeq(event_log'[id], 1, Len(event_log[id])) = event_log[id]
                /\ \A other \in SessionIds \ {id} : event_log'[other] = event_log[other]
                /\ NoNewTask]_vars

\* an activated session with a location was completed on the safe word
C10_Witness ==
    \E id \in DOMAIN sessions :
       /\ Logged(id, "call_outbound_sent")
       /\ Logged(id, "safe_word_detected")
       /\ sessions[id].status = "completed"
       /\ sessions[id].location # Null


(***************************************************************************)
(* C11.  Scheduler overlap guard: a cron tick (a step in which the clock   *)
(* advances) that fires while a previous checkDueSessions is suspended on  *)
(* a provider call changes nothing: no status, no event, no provider       *)
(* request, and it is not queued.                                          *)
(***************************************************************************)
C11_OverlapGuard ==
    [][(now' # now /\ isRunning)
          => UNCHANGED <<sessions, emergency_contacts, event_log, outbox, tasks,
                         isRunning, sched>>]_vars

\* a tick was dropped: the scheduler is suspended and a session that came due after
\* it began is still pending, untouched
C11_Witness ==
    /\ isRunning
    /\ \E id \in DOMAIN sessions :
          /\ sessions[id].status = "pending"
          /\ sessions[id].scheduled_at <= now
          /\ \A i \in DOMAIN sched : sched[i] # id
          /\ event_log[id] = <<(<<"session_activated">>)>>


(***************************************************************************)
(* C12.  Activate-before-call ordering: whenever a check-in call is        *)
(* requested from the provider for a session, by a scheduler tick or by    *)
(* call-now, a call_initiated event is already written and the session is  *)
(* already active.                                                         *)
(***************************************************************************)
CheckInRequests(box, id) == SelectSeq(box[id], LAMBDA r : r[1] = "checkin")

C13_FailureReverts ==
    [][\A id \in DOMAIN sessions :
          /\ Appends(id, "call_failed") => sessions'[id].status = "pending"
          /\ (/\ now' # now
              /\ ~isRunning
              /\ Logged(id, "call_failed")
              /\ sessions[id].status = "pending"
              /\ sessions[id].scheduled_at <= now')
                => /\ \E i \in DOMAIN sched' : sched'[i] = id
                   /\ isRunning'
                   /\ sessions'[Head(sched')].status = "active"
                   /\ Appends(Head(sched'), "call_initiated")]_vars

\* a session whose initiation failed twice is being called a third time
C13_Witness ==
    \E id \in DOMAIN sessions :
       /\ CountLogged(id, "call_failed") = 2
       /\ CountLogged(id, "call_initiated") = 3
       /\ sessions[id].status = "active"
       /\ sched # <<>> /\ Head(sched) = id


(***************************************************************************)
(* C14.  Liveness of scheduling: every session that is pending with        *)
(* scheduled_at <= now is eventually active with a check-in call           *)
(* requested, when ticks keep firing and every provider call returns and   *)
(* eventually succeeds.                                                    *)
(***************************************************************************)
PendingDue(id) ==
    /\ id \in DOMAIN sessions
    /\ sessions[id].status = "pending"
    /\ sessions[id].scheduled_at <= now

ActiveCalled(id) ==
    /\ id \in DOMAIN sessions
    /\ sessions[id].status = "active"
    /\ CheckInRequests(outbox, id) # <<>>

C14_DueEventuallyActive == \A id \in SessionIds : PendingDue(id) ~> ActiveCalled(id)


(***************************************************************************)
(* C15.  Sessions do not block one another: if the provider call for one   *)
(* due session is suspended and never returns, every other session that    *)
(* is pending and due is still eventually active with its call requested.  *)
(***************************************************************************)
\* the scheduler stays suspended on the check-in call of session id for ever
NeverReturns(id) == <>[](sched # <<>> /\ Head(sched) = id)

C15_NoBlocking ==
    \A a, b \in SessionIds :
       a # b => (NeverReturns(a) => (PendingDue(b) ~> ActiveCalled(b)))


(***************************************************************************)
(* C16.  Restart safety: if the process stops at any point and is started  *)
(* again, every session whose check-in was due but never successfully      *)
(* initiated is eventually initiated.  Stated for the sessions a stop can  *)
(* leave behind: a due session that is active with no call_outbound_sent   *)
(* event eventually has its call initiated, or leaves active.              *)
(***************************************************************************)
DueNotInitiated(id) ==
    /\ id \in DOMAIN sessions
    /\ sessions[id].scheduled_at <= now
    /\ sessions[id].status = "active"
    /\ ~Logged(id, "call_outbound_sent")

C16_RestartSafety ==
    \A id \in SessionIds :
       DueNotInitiated(id)
          ~> \/ Logged(id, "call_outbound_sent")
             \/ (id \in DOMAIN sessions /\ sessions[id].status # "active")


(***************************************************************************)
(* C17.  No timeout on active: once a check-in call was successfully       *)
(* initiated for a session and as long as no recording-complete or         *)
(* transcription callback was processed for it, the session stays active,  *)
(* whatever else runs.                                                     *)
(***************************************************************************)
\* no callback for the session has been processed up to and including this step
NoCallbackProcessed(id) ==
    \A i \in DOMAIN event_log'[id] :
       event_log'[id][i][1] \notin {"recording_complete", "transcription_received",
                                   "no_transcription_available"}

C17_ActiveUntilCallback ==
    [][\A id \in DOMAIN sessions :
          (/\ Logged(id, "call_outbound_sent")
           /\ sessions[id].status = "active"
           /\ NoCallbackProcessed(id))
             => sessions'[id].status = "active"]_vars


(***************************************************************************)
(* C18.  Escalation is authoritative: the session is escalated when the    *)
(* escalation ladder attempts any of its notifications (location-request   *)
(* SMS, contact SMS, voice alert), and it is escalated when the ladder     *)
(* finishes, whatever the outcome of the sends.                            *)
(***************************************************************************)
IsLadderNotification(r) ==
    \/ r[1] = "emergency_call"
    \/ r[1] = "sms" /\ r[3] \in {"location_request", "alert"}

\* the step attempts a notification of the ladder for the session
LadderNotifies(id) ==
    Len(SelectSeq(outbox'[id], IsLadderNotification))
       > Len(SelectSeq(outbox[id], IsLadderNotification))

\* the step ends a run of the ladder for the session
LadderFinishes(id) ==
    Appends(id, "emergency_call_initiated") \/ Appends(id, "emergency_call_failed")

C18_EscalationAuthoritative ==
    [][\A id \in DOMAIN sessions :
          (Appends(id, "escalation_triggered") \/ LadderNotifies(id) \/ LadderFinishes(id))
             => sessions'[id].status = "escalated"]_vars


(***************************************************************************)
(* C19.  Level 1 isolation: in a run of the escalation ladder an alert SMS *)
(* is attempted to every emergency contact whichever sends fail: each      *)
(* attempt that settles appends its own sms_sent or sms_failed event       *)
(* naming that contact, and the attempt for the next contact follows       *)
(* whatever the outcome; when the ladder finishes every contact is named   *)
(* in such an event.                                                       *)
(***************************************************************************)
\* the step requests an alert SMS to contact number k and suspends the ladder on it
AlertTo(t, k) ==
    LET contacts == getEmergencyContacts(emergency_contacts, t.id)
        next == [t EXCEPT !.pc = "ladder_sms", !.i = k]
    IN /\ Len(outbox'[t.id]) = Len(outbox[t.id]) + 1
       /\ outbox'[t.id][Len(outbox'[t.id])]
             = <<"sms", contacts[k].phone_number, "alert", t.location>>
       /\ CopiesIn(next, tasks') > CopiesIn(next, tasks)

C19_Level1Isolation ==
    [][/\ \A t \in BagToSet(tasks), ok \in BOOLEAN :
            LadderReturns(t, ok)
               => LET contacts == getEmergencyContacts(emergency_contacts, t.id)
                  IN /\ (t.pc = "ladder_location" /\ contacts # <<>>) => AlertTo(t, 1)
                     /\ t.pc = "ladder_sms"
                           => /\ NewEvents(t.id)
                                    = <<(<<IF ok THEN "sms_sent" ELSE "sms_failed",
                                           contacts[t.i].phone_number>>)>>
                              /\ t.i < Len(contacts) => AlertTo(t, t.i + 1)
       /\ \A id \in DOMAIN sessions :
            LadderFinishes(id)
               => \A k \in DOMAIN getEmergencyContacts(emergency_contacts, id) :
                     \E i \in DOMAIN event_log'[id] :
                        /\ event_log'[id][i][1] \in {"sms_sent", "sms_failed"}
                        /\ event_log'[id][i][2]
                              = getEmergencyContacts(emergency_contacts, id)[k].phone_number]_vars

\* a ladder has finished in which the SMS to the first contact failed and the SMS to
\* the second contact was sent
C19_Witness ==
    \E id \in DOMAIN sessions :
       LET contacts == getEmergencyContacts(emergency_contacts, id)
       IN /\ Len(contacts) = 2
          /\ \E i, j \in DOMAIN event_log[id] :
                /\ i < j
                /\ event_log[id][i] = <<"sms_failed", contacts[1].phone_number>>
                /\ event_log[id][j] = <<"sms_sent", contacts[2].phone_number>>
          /\ Logged(id, "emergency_call_initiated")

(***************************************************************************)
(* C20.  Level 2 always fires: once the last Level 1 SMS of a ladder run   *)
(* has settled, sent or failed, and whatever became of the                 *)
(* location-request SMS, the voice alert call to the primary contact is    *)
(* requested; when that call settles its outcome is logged, a failure as   *)
(* emergency_call_failed, and the handler ends without any other effect.   *)
(***************************************************************************)
C20_Level2AlwaysFires ==
    [][\A t \in BagToSet(tasks), ok \in BOOLEAN :
          LadderReturns(t, ok)
             => LET id == t.id
                    contacts == getEmergencyContacts(emergency_contacts, id)
                    primary == getPrimaryContact(emergency_contacts, id)
                    call == [t EXCEPT !.pc = "ladder_call"]
                IN /\ (t.pc = "ladder_sms" /\ t.i = Len(contacts))
                         => /\ Len(outbox'[id]) = Len(outbox[id]) + 1
                            /\ outbox'[id][Len(outbox'[id])]
                                  = <<"emergency_call", primary.phone_number,
                                      sessions[id].user_phone>>
                            /\ CopiesIn(call, tasks') > CopiesIn(call, tasks)
                   /\ t.pc = "ladder_call"
                         => /\ NewEvents(id)
                                  = <<(<<IF ok THEN "emergency_call_initiated"
                                         ELSE "emergency_call_failed",
                                         primary.phone_number>>)>>
                            /\ sessions' = sessions
                            /\ outbox' = outbox
                            /\ NoNewTask]_vars

\* a ladder has finished in which every send failed: the location request, both
\* contact SMS and the voice alert
C20_Witness ==
    \E id \in DOMAIN sessions :
       /\ Logged(id, "location_request_sms_failed")
       /\ CountLogged(id, "sms_failed") = 2
       /\ ~Logged(id, "sms_sent")
       /\ Logged(id, "emergency_call_failed")


(***************************************************************************)
(* C21.  Primary resolution: every Level 2 voice alert of a session is     *)
(* placed to one contact of the session, the contact with the lowest       *)
(* display order among those flagged primary if any is flagged, otherwise  *)
(* the contact with the lowest display order; no other contact receives a  *)
(* voice alert.                                                            *)
(***************************************************************************)
\* the rows the rule chooses among
PrimaryPool(rows) ==
    LET flagged == {i \in DOMAIN rows : rows[i].is_primary = 1}
    IN IF flagged # {} THEN flagged ELSE DOMAIN rows

\* the contact the rule names
PrimaryByRule(rows) ==
    rows[CHOOSE i \in PrimaryPool(rows) :
            \A j \in PrimaryPool(rows) : rows[i].display_order <= rows[j].display_order]

VoiceAlerts(id) == SelectSeq(outbox[id], LAMBDA r : r[1] = "emergency_call")

C21_PrimaryResolution ==
    \A id \in DOMAIN sessions :
        \A i \in DOMAIN VoiceAlerts(id) :
            /\ emergency_contacts[id] # <<>>
            /\ VoiceAlerts(id)[i][2] = PrimaryByRule(emergency_contacts[id]).phone_number

\* a session with two contacts whose ladder placed the voice alert and finished
C21_Witness ==
    \E id \in DOMAIN sessions :
        /\ Len(emergency_contacts[id]) = 2
        /\ Len(VoiceAlerts(id)) = 1
        /\ VoiceAlerts(id)[1][2] = "c1"
        /\ Logged(id, "emergency_call_initiated")
        /\ \A t \in BagToSet(tasks) : t.id # id


(***************************************************************************)
(* C22.  One set of notifications per escalation: once a session is        *)
(* escalated and every handler working on it has finished, its log holds   *)
(* exactly one location-request outcome, exactly one Level 1 outcome per   *)
(* contact and exactly one voice-alert outcome, whatever callbacks were    *)
(* delivered for it.                                                       *)
(***************************************************************************)
\* how many events of the given types, about the given number if any, the log holds
CountOutcomes(id, types, phone) ==
    Cardinality({i \in DOMAIN event_log[id] :
                    /\ event_log[id][i][1] \in types
                    /\ phone # Null => event_log[id][i][2] = phone})

C22_OneNotificationSet ==
    \A id \in DOMAIN sessions :
        /\ sessions[id].status = "escalated"
        /\ emergency_contacts[id] # <<>>
        /\ \A t \in BagToSet(tasks) : t.id # id
        => /\ CountOutcomes(id, {"location_request_sms_sent", "location_request_sms_failed"},
                            Null) = 1
           /\ \A k \in DOMAIN emergency_contacts[id] :
                 CountOutcomes(id, {"sms_sent", "sms_failed"},
                               emergency_contacts[id][k].phone_number) = 1
           /\ CountOutcomes(id, {"emergency_call_initiated", "emergency_call_failed"},
                            Null) = 1


(***************************************************************************)
(* C23.  Late location submission: send-location with a valid location for *)
(* a stored session, whatever its status, stores the text on the session,  *)
(* requests an updated-location SMS with that text for every emergency     *)
(* contact, logs the outcome of each send whatever the outcome of the      *)
(* others, and leaves the status as it was.                                *)
(***************************************************************************)
\* the updated-location SMS requested for a session
LocationUpdates(box, id) ==
    SelectSeq(box[id], LAMBDA r : r[1] = "sms" /\ r[3] = "location_update")

\* the step in which send-location accepts a submission
C23_SubmissionStep ==
    \A id \in DOMAIN sessions :
        Appends(id, "location_submitted") =>
            LET loc == Appended(id, "location_submitted")[2]
                contacts == getEmergencyContacts(emergency_contacts, id)
            IN /\ sessions'[id] = [sessions[id] EXCEPT !.location = loc]
               /\ emergency_contacts' = emergency_contacts
               /\ LocationUpdates(outbox', id) =
                     IF contacts = <<>> THEN LocationUpdates(outbox, id)
                     ELSE Append(LocationUpdates(outbox, id),
                                 <<"sms", contacts[1].phone_number, "location_update", loc>>)

\* the step in which one send of the broadcast settles
C23_OutcomeStep ==
    \A t \in BagToSet(tasks), ok \in BOOLEAN :
        SendLocationReturns(t, ok) =>
            LET contacts == getEmergencyContacts(emergency_contacts, t.id)
            IN /\ NewEvents(t.id) =
                     << IF ok THEN <<"location_update_sms_sent",
                                     contacts[t.i].phone_number, t.location>>
                        ELSE <<"location_update_sms_failed", contacts[t.i].phone_number>> >>
               /\ sessions' = sessions
               /\ LocationUpdates(outbox', t.id) =
                     IF t.i = Len(contacts) THEN LocationUpdates(outbox, t.id)
                     ELSE Append(LocationUpdates(outbox, t.id),
                                 <<"sms", contacts[t.i + 1].phone_number, "location_update",
                                   t.location>>)

\* once the submissions of a session are through, every contact has one request
\* and one logged outcome per submission
C23_EveryContact ==
    \A id \in DOMAIN sessions :
        (\A t \in BagToSet(tasks) : t.id = id => t.op # "send-location") =>
            \A k \in DOMAIN emergency_contacts[id] :
                LET phone == emergency_contacts[id][k].phone_number
                IN /\ CountOutcomes(id, {"location_update_sms_sent",
                                         "location_update_sms_failed"}, phone)
                        = CountLogged(id, "location_submitted")
                   /\ Len(SelectSeq(LocationUpdates(outbox, id), LAMBDA r : r[2] = phone))
                        = CountLogged(id, "location_submitted")

C23_LateLocation == []C23_EveryContact /\ [][C23_SubmissionStep /\ C23_OutcomeStep]_vars

\* an escalated session took a submission: the location is stored, the first send
\* failed, the second went through, and the session is still escalated
C23_Witness ==
    \E id \in DOMAIN sessions :
        /\ sessions[id].status = "escalated"
        /\ sessions[id].location = "L1"
        /\ Logged(id, "emergency_call_initiated")
        /\ Len(event_log[id]) >= 3
        /\ SubSeq(event_log[id], Len(event_log[id]) - 2, Len(event_log[id]))
              = << <<"location_submitted", "L1">>,
                   <<"location_update_sms_failed", "c1">>,
                   <<"location_update_sms_sent", "c2", "L1">> >>
        /\ tasks = EmptyBag


(***************************************************************************)
(* C24.  Repeated location submission: submitting the location a session   *)
(* already holds leaves its stored state (status, location, contacts) as   *)
(* it was after the first submission, and still starts a fresh broadcast:  *)
(* k submissions to a session with n contacts make k*n send attempts.      *)
(***************************************************************************)
\* send-location accepts a location the session already got from a submission
RepeatSubmission(id) ==
    /\ Appends(id, "location_submitted")
    /\ Logged(id, "location_submitted")
    /\ Appended(id, "location_submitted")[2] = sessions[id].location

C24_RepeatStep ==
    \A id \in DOMAIN sessions :
        RepeatSubmission(id) =>
            /\ sessions'[id] = sessions[id]
            /\ emergency_contacts'[id] = emergency_contacts[id]
            /\ Len(LocationUpdates(outbox', id)) =
                  Len(LocationUpdates(outbox, id))
                     + (IF emergency_contacts[id] = <<>> THEN 0 ELSE 1)

C24_AllAttempts ==
    \A id \in DOMAIN sessions :
        (\A t \in BagToSet(tasks) : t.id = id => t.op # "send-location") =>
            Len(LocationUpdates(outbox, id))
               = CountLogged(id, "location_submitted") * Len(emergency_contacts[id])

C24_RepeatedSubmission == []C24_AllAttempts /\ [][C24_RepeatStep]_vars

\* the same location was submitted twice to a session with two contacts: four sends
C24_Witness ==
    \E id \in DOMAIN sessions :
        /\ CountLogged(id, "location_submitted") = 2
        /\ Len(emergency_contacts[id]) = 2
        /\ Len(LocationUpdates(outbox, id)) = 4
        /\ sessions[id].location = "L1"
        /\ sessions[id].status = "pending"
        /\ tasks = EmptyBag


(***************************************************************************)
(* C25.  Dead callbacks: a /voice, recording-complete, transcription or    *)
(* /call-status request with no session id, or with an id that matches no  *)
(* stored session, changes no session, appends no event, sends no          *)
(* notification and is answered with a success status.                     *)
(***************************************************************************)
\* the step changes nothing but the count of requests
DeadCallbackFrame ==
    /\ sessions' = sessions
    /\ event_log' = event_log
    /\ emergency_contacts' = emergency_contacts
    /\ NoNotification
    /\ NoNewTask

C25_DeadCallbacks ==
    [][\A id \in RequestIds :
          Missing(id) \/ ~Found(sessions, id) =>
             /\ Voice(id) => DeadCallbackFrame /\ VoiceResponse(sessions, id) = 200
             /\ CallStatus(id) => DeadCallbackFrame /\ CallStatusResponse(sessions, id) = 200
             /\ (\E text \in Transcripts, hasRecording \in BOOLEAN :
                    RecordingComplete(id, text, hasRecording, hasRecording))
                   => DeadCallbackFrame /\ RecordingCompleteResponse(sessions, id) = 200
             /\ (\E text \in Transcripts : Transcription(id, text))
                   => DeadCallbackFrame /\ TranscriptionResponse(sessions, id) = 200]_vars


(***************************************************************************)
(* C26.  Audit bracketing: every change of a session's status, by any      *)
(* operation, comes right after an event-log append for the session that   *)
(* describes the trigger and is followed by an append that describes the   *)
(* outcome.                                                                *)
(***************************************************************************)
StatusChanges(id) == sessions'[id].status # sessions[id].status

\* after the step a handler (or the scheduler's tick) is still at work on the session
StillHandled(id) ==
    \/ \E t \in BagToSet(tasks') : t.id = id /\ CopiesIn(t, tasks') > CopiesIn(t, tasks)
    \/ sched' # <<>> /\ Head(sched') = id

\* the handler run that changes the status writes the trigger with it, and either
\* writes the outcome with it as well or goes on to an await after which it can
C26_AuditBracketing ==
    [][\A id \in DOMAIN sessions :
          StatusChanges(id) =>
             /\ NewEvents(id) # <<>>
             /\ Len(NewEvents(id)) >= 2 \/ StillHandled(id)]_vars


(***************************************************************************)
(* C27.  Status is reconstructible from the log: no two reachable states   *)
(* hold the same event sequence for a session and different statuses for   *)
(* it.                                                                     *)
(***************************************************************************)
\* two such states never follow one another
C27_StatusFromLog ==
    [][\A id \in DOMAIN sessions :
          event_log'[id] = event_log[id] => sessions'[id].status = sessions[id].status]_vars


(***************************************************************************)
(* C28.  The event log is append-only: every operation leaves each         *)
(* session's event sequence as a prefix of the new one, so that no event   *)
(* is updated, removed or reordered, and no session is ever deleted.       *)
(***************************************************************************)
IsPrefix(s, t) == Len(s) <= Len(t) /\ SubSeq(t, 1, Len(s)) = s

C28_AppendOnly ==
    [][/\ \A id \in SessionIds : IsPrefix(event_log[id], event_log'[id])
       /\ \A id \in DOMAIN sessions :
             /\ id \in DOMAIN sessions'
             /\ sessions'[id].user_phone = sessions[id].user_phone
             /\ sessions'[id].scheduled_at = sessions[id].scheduled_at]_vars

\* a log written by the activation, the scheduler and a callback, one after the other
C28_Witness ==
    \E id \in DOMAIN sessions :
        /\ Len(event_log[id]) >= 5
        /\ event_log[id][1] = <<"session_activated">>
        /\ event_log[id][2] = <<"call_initiated">>
        /\ event_log[id][3] = <<"call_outbound_sent">>
        /\ event_log[id][4][1] = "transcription_received"
        /\ sessions[id].status \in Terminal


(***************************************************************************)
(* C29.  Every stored session has at least one emergency contact, the ones *)
(* given at its activation: an activation that is rejected or that fails   *)
(* partway leaves no session without contacts, and no later operation      *)
(* adds, removes or changes a contact.                                     *)
(***************************************************************************)
C29_HasContacts == \A id \in DOMAIN sessions : emergency_contacts[id] # <<>>

C29_ContactsFrozen ==
    \A id \in DOMAIN sessions : emergency_contacts'[id] = emergency_contacts[id]

C29_ContactsInvariant == []C29_HasContacts /\ [][C29_ContactsFrozen]_vars


(***************************************************************************)
(* C30.  Escalation precedence in the analyzer: for every transcript in    *)
(* which both the escalation phrase and the safe phrase are present, in    *)
(* either order, analyzeResponse returns escalate.                         *)
(***************************************************************************)
\* where the normalized phrase occurs in the normalized transcript
Occurrences(text, word) ==
    {i \in 1..Len(normalizeText(text)) :
        normalizeText(word) # <<>> /\ MatchAt(normalizeText(text), normalizeText(word), i)}

\* the step is a callback taking up a transcript
Analyzes(id) ==
    /\ NewEvents(id) # <<>>
    /\ NewEvents(id)[1][1] = "transcription_received"

C30_EscalationPrecedence ==
    [][\A id \in DOMAIN sessions :
          LET text == NewEvents(id)[1][2]
              safe == sessions[id].safe_word
              escalation == sessions[id].escalation_word
          IN /\ Analyzes(id)
             /\ Occurrences(text, safe) # {}
             /\ Occurrences(text, escalation) # {}
             => /\ analyzeResponse(text, safe, escalation) = "escalate"
                /\ Appends(id, "escalation_word_detected")
                /\ ~Appends(id, "safe_word_detected")
                /\ sessions'[id].status = "escalated"]_vars

\* a transcript with the safe phrase before the escalation phrase was decided
C30_Witness ==
    \E id \in DOMAIN sessions :
        /\ Len(event_log[id]) >= 3
        /\ event_log[id][2][1] = "transcription_received"
        /\ \E i \in Occurrences(event_log[id][2][2], sessions[id].safe_word),
              j \in Occurrences(event_log[id][2][2], sessions[id].escalation_word) : i < j
        /\ event_log[id][3][1] = "escalation_word_detected"
        /\ sessions[id].status = "escalated"


(***************************************************************************)
(* C31.  The analyzer's result is determined by presence: it is escalate   *)
(* iff the normalized escalation word occurs in the normalized transcript, *)
(* safe iff the normalized safe word occurs and the escalation word does   *)
(* not, unknown iff neither occurs, for every input, the empty transcript  *)
(* and words that normalize to nothing included (such a word occurs        *)
(* nowhere).                                                               *)
(***************************************************************************)
\* what the presence of the two words makes the result
ByPresence(text, safe, escalation) ==
    IF Occurrences(text, escalation) # {} THEN "escalate"
    ELSE IF Occurrences(text, safe) # {} THEN "safe"
    ELSE "unknown"

C31_DeterminedByPresence ==
    [][\A id \in DOMAIN sessions :
          Analyzes(id) =>
             LET text == NewEvents(id)[1][2]
                 safe == sessions[id].safe_word
                 escalation == sessions[id].escalation_word
                 result == analyzeResponse(text, safe, escalation)
             IN /\ result = ByPresence(text, safe, escalation)
                /\ Appends(id, "escalation_word_detected") <=> result = "escalate"
                /\ Appends(id, "safe_word_detected") <=> result = "safe"]_vars

\* the safe word was found inside a longer word, and a word of punctuation in no transcript
C31_Witness ==
    \E id \in DOMAIN sessions :
        /\ Len(event_log[id]) = 3
        /\ event_log[id][2] = <<"transcription_received", <<"s", "o", "k", "o">>>>
        /\ event_log[id][3][1] = "safe_word_detected"
        /\ sessions[id].safe_word = SafeWord
        /\ sessions[id].status = "completed"


(***************************************************************************)
(* C32.  The analyzer's result does not depend on letter case or on        *)
(* punctuation: it is the same for a transcript and for that transcript    *)
(* with its punctuation characters removed or its letters lowered, and the *)
(* same for a trigger word and that word without its punctuation.          *)
(***************************************************************************)
\* the text without its punctuation characters
IsTextChar(c) == IsWordChar(c) \/ IsSpace(c)

StripPunctuation(text) == SelectSeq(text, IsTextChar)

LowerCase(text) == [i \in 1..Len(text) |-> ToLowerCase(text[i])]

C32_CaseAndPunctuation ==
    [][\A id \in DOMAIN sessions :
          Analyzes(id) =>
             LET text == NewEvents(id)[1][2]
                 safe == sessions[id].safe_word
                 escalation == sessions[id].escalation_word
                 result == analyzeResponse(text, safe, escalation)
             IN /\ (Appends(id, "escalation_word_detected") <=> result = "escalate")
                /\ analyzeResponse(LowerCase(text), safe, escalation) = result
                /\ analyzeResponse(text, StripPunctuation(safe),
                                   StripPunctuation(escalation)) = result
                /\ analyzeResponse(StripPunctuation(text), safe, escalation) = result]_vars


(***************************************************************************)
(* C40.  The safe word is always usable: a transcription callback whose    *)
(* transcript is exactly the session's safe word finds the safe word,      *)
(* completes the session and starts no escalation, whatever trigger words  *)
(* the activation accepted.                                                *)
(***************************************************************************)
C40_SafeWordUsable ==
    [][\A id \in DOMAIN sessions :
          (Analyzes(id) /\ NewEvents(id)[1][2] = sessions[id].safe_word) =>
             /\ Appends(id, "safe_word_detected")
             /\ ~Appends(id, "escalation_word_detected")
             /\ sessions'[id].status = "completed"
             /\ NoNotification]_vars


(***************************************************************************)
(* C33.  A clear-due request completes exactly the sessions a scheduler    *)
(* tick at the same instant would treat as due (pending, scheduled at or   *)
(* before now), leaves every other session as it was, and sends nothing.   *)
(***************************************************************************)
\* the sessions a tick at this instant would find due
DueNow == {id \in DOMAIN sessions : \E due \in DueLists(now) : \E i \in DOMAIN due : due[i] = id}

C33_ClearDueMatchesScheduler ==
    [][ClearDue =>
          /\ \A id \in DOMAIN sessions :
                sessions'[id] = IF id \in DueNow
                                THEN [sessions[id] EXCEPT !.status = "completed"]
                                ELSE sessions[id]
          /\ outbox' = outbox
          /\ NoNewTask]_vars


(***************************************************************************)
(* C34.  cancelled is a reachable terminal status: for every session that  *)
(* is pending or active some operation of the service can move it to       *)
(* cancelled, and a cancelled session never changes status again.          *)
(***************************************************************************)
\* the steps of the service other than the two callbacks that take a transcript
OtherSteps ==
    \/ requests < MaxRequests /\ \E req \in ActivateRequests : Activate(req)
    \/ Tick
    \/ \E ok \in BOOLEAN : TickCallReturns(ok)
    \/ Restart
    \/ \E t \in BagToSet(tasks), ok \in BOOLEAN, text \in Transcripts :
          WhisperReturns(t, ok, text)
    \/ \E t \in BagToSet(tasks), reply \in ClassifierReplies : ClassifierReturns(t, reply)
    \/ \E t \in BagToSet(tasks), ok \in BOOLEAN : LadderReturns(t, ok)
    \/ requests < MaxRequests /\ \E i \in RequestIds : Voice(i) \/ CallStatus(i)
    \/ requests < MaxRequests /\ ClearDue
    \/ requests < MaxRequests /\ \E i \in SessionIds : CallNow(i)
    \/ \E t \in BagToSet(tasks), ok \in BOOLEAN : CallNowReturns(t, ok)
    \/ requests < MaxRequests /\ \E i \in SessionIds, location \in Locations :
          SendLocation(i, location)
    \/ \E t \in BagToSet(tasks), ok \in BOOLEAN : SendLocationReturns(t, ok)

\* the statuses the two transcript callbacks can leave the session in
TranscriptStatuses(id) ==
    {AnalyzeTranscript(Log(Db, id, <<"transcription_received", text>>), id, text,
                       "transcription").db.sessions[id].status : text \in Transcripts}
    \cup {ProcessRecording(Db, id, text).db.sessions[id].status : text \in Transcripts}

\* some step of the service puts the session into the given status
CanReach(id, status) ==
    \/ ENABLED (OtherSteps /\ sessions'[id].status = status)
    \/ requests < MaxRequests /\ status \in TranscriptStatuses(id)

C34_Cancellable ==
    \A id \in DOMAIN sessions :
        /\ (requests < MaxRequests /\ sessions[id].status \in {"pending", "active"})
              => CanReach(id, "cancelled")
        /\ sessions[id].status = "cancelled" =>
              \A status \in {"pending", "active", "completed", "escalated"} :
                 ~CanReach(id, status)

(***************************************************************************)
(* C36.  The two transcript callbacks are equivalent: in every state, for  *)
(* every session and every transcript (the empty one included), a          *)
(* recording-complete callback without a recording URL and a transcription *)
(* callback leave the session in the same status and request the same      *)
(* notifications.                                                          *)
(***************************************************************************)
C36_CallbacksEquivalent ==
    \A id \in DOMAIN sessions, text \in Transcripts :
        LET recording == ProcessRecording(Db, id, text).db
            transcription ==
                AnalyzeTranscript(Log(Db, id, <<"transcription_received", text>>),
                                  id, text, "transcription").db
        IN /\ recording.sessions[id].status = transcription.sessions[id].status
           /\ Notifications(recording.outbox, id) = Notifications(transcription.outbox, id)


(***************************************************************************)
(* C37.  A failed initiation does not stop the tick: when the provider     *)
(* call for one due session settles, with success or with failure, and the *)
(* tick's due list has a next session, that session is processed in the    *)
(* same step (call_initiated written, status active, check-in call         *)
(* requested), and it is scheduled no earlier than the one before it.      *)
(***************************************************************************)
\* the tick's provider call for the session at the head of its list settles
TickCallSettles ==
    /\ sched # <<>>
    /\ tasks' = tasks
    /\ Appends(Head(sched), "call_outbound_sent") \/ Appends(Head(sched), "call_failed")

C37_TickContinues ==
    [][(TickCallSettles /\ Tail(sched) # <<>>) =>
          LET id == Head(Tail(sched))
          IN /\ sched' = Tail(sched)
             /\ NewEvents(id) = <<<<"call_initiated">>>>
             /\ sessions'[id].status = "active"
             /\ outbox'[id] = Append(outbox[id], <<"checkin", sessions[id].user_phone>>)
             /\ sessions[Head(sched)].scheduled_at <= sessions[id].scheduled_at]_vars

\* the first session's call failed and the second session of the same tick was called
C37_Witness ==
    /\ sched = <<2>>
    /\ isRunning
    /\ event_log[1][Len(event_log[1])] = <<"call_failed">>
    /\ sessions[1].status = "pending"
    /\ sessions[2].status = "active"
    /\ event_log[2][Len(event_log[2])] = <<"call_initiated">>


(***************************************************************************)
(* C35.  The scheduler acts on current state: whenever a tick writes       *)
(* call_initiated and status active for a session, the session is pending  *)
(* at that moment, whatever clear-due or call-now did to it while the tick *)
(* was awaiting the call of an earlier session of its list.                *)
(***************************************************************************)
C35_ActsOnCurrentState ==
    [][\A id \in DOMAIN sessions :
          (Appends(id, "call_initiated") /\ sessions'[id].status = "active")
             => sessions[id].status = "pending"]_vars

(***************************************************************************)
(* C38.  The overlap guard is held only while an invocation of             *)
(* checkDueSessions is in progress: once the invocation has ended, by      *)
(* running out of sessions or by an exception of the store, isRunning is   *)
(* false, so no later tick is dropped because of a finished one.           *)
(***************************************************************************)
C38_GuardReleased == isRunning => sched # <<>>

\* a tick ended by an exception of the failure-handling write, and the guard is free
C38_Witness ==
    /\ ~isRunning
    /\ sched = <<>>
    /\ \E id \in DOMAIN sessions :
          /\ sessions[id].status = "active"
          /\ event_log[id][Len(event_log[id])] = <<"call_failed">>


(***************************************************************************)
(* C39.  The contact the caller chose is the one called: when an accepted  *)
(* activation flags exactly one contact as primary, at whatever position,  *)
(* that contact alone is stored as primary and it is the one the Level 2   *)
(* voice alert goes to (the one getPrimaryContact returns).                *)
(***************************************************************************)
\* the positions the request flags as primary
Flagged(req) == {i \in DOMAIN req.contacts : req.contacts[i].isPrimary}

C39_ChosenPrimary ==
    [][\A req \in ActivateRequests :
          LET id == Cardinality(DOMAIN sessions) + 1
          IN (Activate(req) /\ Appends(id, "session_activated")
                /\ Cardinality(Flagged(req)) = 1) =>
                LET chosen == req.contacts[CHOOSE i \in Flagged(req) : TRUE].phone
                    stored == emergency_contacts'[id]
                IN /\ \A i \in DOMAIN stored :
                         stored[i].is_primary = 1 <=> stored[i].phone_number = chosen
                   /\ getPrimaryContact(emergency_contacts', id).phone_number = chosen]_vars

=============================================================================
